---- MODULE Spec2Model ----
(***************************************************************************)
(* Model of api/anime.js: the HiAnime scraping handler.                    *)
(*                                                                         *)
(* JavaScript strings on which the code computes (parseInt, split, trim,   *)
(* text concatenation, encodeURIComponent) are sequences of one-character  *)
(* strings.  Strings that are only copied are TLA+ strings.                *)
(* A JavaScript value that may be undefined is a record [def |-> FALSE] or *)
(* [def |-> TRUE, s |-> value].                                            *)
(***************************************************************************)
EXTENDS Integers, Sequences, FiniteSets, TLC

VARIABLES
    pc,        \* position of the handler invocation
    req,       \* the inbound request: method and req.query
    headers,   \* response headers set so far (name -> value)
    params,    \* the locals { action, query, page, id } once destructured
    calls,     \* outbound calls issued by fetch() during this invocation
    pending,   \* TRUE while an outbound call is in flight
    response,  \* the upstream response fetch() resolved with
    html,      \* markup returned by fetchFromHiAnime
    result,    \* value returned by the extractor
    thrown,    \* error propagating to the handler's catch
    res,       \* the response sent (status, body)
    sent,      \* number of responses sent by this invocation
    log        \* console.error entries of this invocation

vars == <<pc, req, headers, params, calls, pending, response, html, result, thrown, res, sent, log>>

\* Largest number of nodes in a fetched document.
MaxNodes == 2

----------------------------------------------------------------------------
(* JavaScript values *)

Undefined == [def |-> FALSE]
Str(s) == [def |-> TRUE, s |-> s]

\* ToString(v) as parseInt and the template literals apply it.
JsString(v) == IF v.def THEN v.s ELSE <<"u","n","d","e","f","i","n","e","d">>

\* !v for a string or undefined: undefined and '' are falsy.
Falsy(v) == IF v.def THEN v.s = <<>> ELSE TRUE

NaN == [nan |-> TRUE]
Num(n) == [nan |-> FALSE, n |-> n]

\* x || d for a number x: NaN and 0 are falsy.
OrDefault(x, d) == IF x.nan \/ x.n = 0 THEN d ELSE x.n

WhiteSpace == {" ", "\t", "\n"}

RECURSIVE TrimStart(_)
TrimStart(s) ==
    IF s # <<>> /\ Head(s) \in WhiteSpace THEN TrimStart(Tail(s)) ELSE s

RECURSIVE TrimEnd(_)
TrimEnd(s) ==
    IF s # <<>> /\ s[Len(s)] \in WhiteSpace
    THEN TrimEnd(SubSeq(s, 1, Len(s) - 1)) ELSE s

\* String.prototype.trim
Trim(s) == TrimEnd(TrimStart(s))

HexDigits == <<"0","1","2","3","4","5","6","7","8","9","a","b","c","d","e","f">>

\* Value of a digit character in the given radix, -1 when it is not one.
DigitVal(c, radix) ==
    IF \E k \in 1..radix : HexDigits[k] = c
    THEN (CHOOSE k \in 1..radix : HexDigits[k] = c) - 1
    ELSE -1

RECURSIVE ParseDigits(_, _, _, _)
\* Consumes the longest prefix of digits; seen tells whether one was consumed.
ParseDigits(s, radix, acc, seen) ==
    IF s # <<>> /\ DigitVal(Head(s), radix) >= 0
    THEN ParseDigits(Tail(s), radix, acc * radix + DigitVal(Head(s), radix), TRUE)
    ELSE IF seen THEN Num(acc) ELSE NaN

\* parseInt(string) without a radix argument.
ParseInt(s) ==
    LET t == TrimStart(s)
        neg == t # <<>> /\ Head(t) = "-"
        u == IF t # <<>> /\ Head(t) \in {"-", "+"} THEN Tail(t) ELSE t
        hex == Len(u) >= 2 /\ u[1] = "0" /\ u[2] \in {"x", "X"}
        v == IF hex THEN ParseDigits(Tail(Tail(u)), 16, 0, FALSE)
                    ELSE ParseDigits(u, 10, 0, FALSE)
    IN IF v.nan THEN NaN ELSE Num(IF neg THEN 0 - v.n ELSE v.n)

RECURSIVE LastSegment(_)
\* s.split('/').pop(): what follows the last '/'.
LastSegment(s) ==
    IF \E i \in 1..Len(s) : s[i] = "/"
    THEN LastSegment(Tail(s))
    ELSE s

\* attr('href')?.split('/').pop() || ''
IdOfHref(href) == IF href.def THEN LastSegment(href.s) ELSE <<>>

RECURSIVE EncodeURIComponent(_)
\* Unreserved characters are kept, the others are percent-encoded.
EncodeURIComponent(s) ==
    IF s = <<>> THEN <<>>
    ELSE (IF Head(s) = " " THEN <<"%","2","0">>
          ELSE IF Head(s) = "/" THEN <<"%","2","F">>
          ELSE <<Head(s)>>) \o EncodeURIComponent(Tail(s))

RECURSIVE Concat(_)
\* .text() of a selection: the texts of the matched elements, concatenated.
Concat(ss) == IF ss = <<>> THEN <<>> ELSE Head(ss) \o Concat(Tail(ss))

----------------------------------------------------------------------------
(* Upstream documents *)

\* What one node of a document carries: its link, its name text and its
\* episode badges (no badge element at all is Undefined).
Contents ==
    { [href |-> Undefined, name |-> Undefined, sub |-> Undefined, dub |-> Undefined],
      [href |-> Str(<<"/","w","/","a","1">>), name |-> Str(<<" ","A"," ">>),
       sub |-> Str(<<"1","2">>), dub |-> Str(<<"x">>)],
      [href |-> Str(<<"/","b">>), name |-> Str(<<"B">>),
       sub |-> Str(<<"-","5">>), dub |-> Str(<<" ","7">>)],
      [href |-> Str(<<"/","c","/">>), name |-> Str(<<" ">>),
       sub |-> Str(<<"x","1">>), dub |-> Str(<<"3","x">>)] }

\* Class of the node and whether it lies inside #trending-home .film_list-wrap.
Kinds ==
    { [cls |-> "deslide-item", trending |-> FALSE],
      [cls |-> "flw-item", trending |-> TRUE],
      [cls |-> "flw-item", trending |-> FALSE],
      [cls |-> "div", trending |-> FALSE] }

Nodes == { [kind |-> k, c |-> c] : k \in Kinds, c \in Contents }

Markups == UNION { [1..n -> Nodes] : n \in 0..MaxNodes }

\* $(selector) is SelectSeq(doc, Match): the matching nodes in document order.
IsSpotlight(n) == n.kind.cls = "deslide-item"
IsTrending(n) == n.kind.cls = "flw-item" /\ n.kind.trending
IsListing(n) == n.kind.cls = "flw-item"

\* $(el).find(sel).text(): '' when nothing matches.
Text(v) == IF v.def THEN v.s ELSE <<>>

HasSub(n) == n.c.sub.def
HasDub(n) == n.c.dub.def
HasName(n) == n.c.name.def

RECURSIVE TextsOf(_, _)
TextsOf(ns, field) ==
    IF ns = <<>> THEN <<>> ELSE <<Head(ns).c[field].s>> \o TextsOf(Tail(ns), field)

----------------------------------------------------------------------------
(* Extractors: the code that runs once the markup is there *)

\* Variant: the rank is the zero-based index.
SpotlightEntry_ZeroRank(i, el) ==
    [id |-> IdOfHref(el.c.href), title |-> Trim(Text(el.c.name)), rank |-> i]

SpotlightEntry(i, el) ==
    [id |-> IdOfHref(el.c.href), title |-> Trim(Text(el.c.name)), rank |-> i + 1]

TrendingEntry(i, el) ==
    [id |-> IdOfHref(el.c.href), title |-> Trim(Text(el.c.name))]

\* parseInt(text) || 0
EpisodeCount(text) == OrDefault(ParseInt(text), 0)

SearchEntry(i, el) ==
    [id |-> IdOfHref(el.c.href), title |-> Trim(Text(el.c.name)),
     episodes |-> [sub |-> EpisodeCount(Text(el.c.sub)),
                   dub |-> EpisodeCount(Text(el.c.dub))]]

RECURSIVE EachSpotlight(_, _, _)
\* $('.deslide-item').each((i, el) => { spotlight.push(...) })
EachSpotlight(els, i, spotlight) ==
    IF i >= Len(els) THEN spotlight
    ELSE EachSpotlight(els, i + 1, Append(spotlight, SpotlightEntry(i, els[i + 1])))

RECURSIVE EachTrending(_, _, _)
EachTrending(els, i, trending) ==
    IF i >= Len(els) THEN trending
    ELSE EachTrending(els, i + 1, Append(trending, TrendingEntry(i, els[i + 1])))

RECURSIVE EachResult(_, _, _)
EachResult(els, i, results) ==
    IF i >= Len(els) THEN results
    ELSE EachResult(els, i + 1, Append(results, SearchEntry(i, els[i + 1])))

HomeResult(doc) ==
    [success |-> TRUE,
     data |-> [spotlight |-> EachSpotlight(SelectSeq(doc, IsSpotlight), 0, <<>>),
               trending |-> EachTrending(SelectSeq(doc, IsTrending), 0, <<>>)]]

SearchResult(doc, query, page) ==
    [success |-> TRUE,
     data |-> [results |-> EachResult(SelectSeq(doc, IsListing), 0, <<>>),
               currentPage |-> page,
               query |-> query]]

\* Variant: the id is taken from the first link of the page.
DetailsResult_IdFromPage(doc, animeId) ==
    [success |-> TRUE,
     data |-> [id |-> IF doc = <<>> THEN animeId ELSE Str(IdOfHref(doc[1].c.href)),
               title |-> Trim(Concat(TextsOf(SelectSeq(doc, HasName), "name"))),
               episodes |->
                   [sub |-> EpisodeCount(Concat(TextsOf(SelectSeq(doc, HasSub), "sub"))),
                    dub |-> EpisodeCount(Concat(TextsOf(SelectSeq(doc, HasDub), "dub")))]]]

DetailsResult(doc, animeId) ==
    [success |-> TRUE,
     data |-> [id |-> animeId,
               title |-> Trim(Concat(TextsOf(SelectSeq(doc, HasName), "name"))),
               episodes |->
                   [sub |-> EpisodeCount(Concat(TextsOf(SelectSeq(doc, HasSub), "sub"))),
                    dub |-> EpisodeCount(Concat(TextsOf(SelectSeq(doc, HasDub), "dub")))]]]

----------------------------------------------------------------------------
(* Requests *)

Methods == {"GET", "OPTIONS"}
Actions == {Undefined, Str("home"), Str("search"), Str("details"), Str("bogus")}
Queries == {Undefined, Str(<<>>), Str(<<"o"," ","p">>)}
Pages == {Undefined, Str(<<"2">>), Str(<<"-","3">>), Str(<<"0">>),
          Str(<<"x">>), Str(<<" ","1","2","x">>)}
Ids == {Undefined, Str(<<>>), Str(<<"o","p","-","1">>)}

Requests ==
    [method : Methods,
     query : [action : Actions, query : Queries, page : Pages, id : Ids]]

NoParams == [read |-> FALSE]
NoUpstream == [code |-> 0, text |-> ""]
NoResponse == [status |-> 0, kind |-> "none"]
NoError == [raised |-> FALSE]
NoResult == [success |-> FALSE]
Error(message) == [raised |-> TRUE, message |-> message]

CorsHeaders ==
    { <<"Access-Control-Allow-Origin", "*">>,
      <<"Access-Control-Allow-Methods", "GET, OPTIONS">>,
      <<"Access-Control-Allow-Headers", "Content-Type">> }

Catalog ==
    [success |-> TRUE,
     message |-> "HiAnime API - Available endpoints",
     endpoints |->
        << [path |-> "/api/hianime?action=home", description |-> "Get homepage content"],
           [path |-> "/api/hianime?action=search&query=naruto&page=1",
            description |-> "Search anime"],
           [path |-> "/api/hianime?action=details&id=naruto-20",
            description |-> "Get anime details"] >>]

\* res.status(s).json(body) and res.status(s).end()
Json(status, body) == [status |-> status, kind |-> "json", json |-> body]
End(status) == [status |-> status, kind |-> "empty"]

----------------------------------------------------------------------------
(* fetchFromHiAnime *)

RECURSIVE NatToChars(_)
NatToChars(n) ==
    IF n < 10 THEN <<HexDigits[n + 1]>>
    ELSE NatToChars(n \div 10) \o <<HexDigits[(n % 10) + 1]>>

\* `${n}` for an integer n
IntToChars(n) == IF n < 0 THEN <<"-">> \o NatToChars(0 - n) ELSE NatToChars(n)

HomePath == <<"/","h","o","m","e">>

\* `/search?keyword=${encodeURIComponent(query)}&page=${page}`
SearchPath(query, page) ==
    <<"/","s","e","a","r","c","h","?","k","e","y","w","o","r","d","=">>
        \o EncodeURIComponent(JsString(query))
        \o <<"&","p","a","g","e","=">> \o IntToChars(page)

\* `/${animeId}`
DetailsPath(animeId) == <<"/">> \o JsString(animeId)

\* What the upstream can answer with a status line.
Statuses == { [code |-> 200, text |-> "OK"],
              [code |-> 404, text |-> "Not Found"],
              [code |-> 503, text |-> ""] }

\* Variant: only server errors count as failures.
ResponseOk_Below500(status) == status.code >= 200 /\ status.code <= 499

\* response.ok
ResponseOk(status) == status.code >= 200 /\ status.code <= 299

\* `HTTP ${response.status}: ${response.statusText}`, as its pieces.
HttpErrorMessage(status) == <<"HTTP ", ToString(status.code), ": ", status.text>>

\* Messages of the errors fetch() and response.text() reject with.
FetchFailed == <<"fetch failed">>
Terminated == <<"terminated">>

\* A message is the empty string when all its pieces are.
IsEmptyMessage(m) == \A i \in DOMAIN m : m[i] = ""

\* The handler's call of an extractor reaches fetch(`${BASE_URL}${path}`)
\* in the same synchronous run.
IssueFetch(path) ==
    /\ calls' = Append(calls, path)
    /\ pending' = TRUE
    /\ pc' = "fetch"

\* fetch resolved with a success status and response.text() with the markup.
FetchOk ==
    /\ pc = "fetch"
    /\ \E status \in Statuses, doc \in Markups :
        /\ ResponseOk(status)
        /\ response' = status
        /\ html' = doc
    /\ pending' = FALSE
    /\ pc' = "loaded"
    /\ UNCHANGED <<req, headers, params, calls, result, thrown, res, sent, log>>

\* Variant: a failed call is issued once more before the error is thrown.
FetchHttpError_Retry ==
    /\ pc = "fetch"
    /\ \E status \in Statuses :
        /\ ~ResponseOk(status)
        /\ response' = status
        /\ IF Len(calls) < 2
           THEN /\ calls' = Append(calls, calls[1])
                /\ pc' = "fetch"
                /\ UNCHANGED <<pending, thrown, log>>
           ELSE /\ thrown' = Error(HttpErrorMessage(status))
                /\ pending' = FALSE
                /\ log' = Append(log, "Fetch error:")
                /\ pc' = "catch"
                /\ UNCHANGED calls
    /\ UNCHANGED <<req, headers, params, html, result, res, sent>>

\* fetch resolved with a non-success status: the Error is thrown, logged by
\* the catch of fetchFromHiAnime and thrown again.
FetchHttpError ==
    /\ pc = "fetch"
    /\ \E status \in Statuses :
        /\ ~ResponseOk(status)
        /\ response' = status
        /\ thrown' = Error(HttpErrorMessage(status))
    /\ pending' = FALSE
    /\ log' = Append(log, "Fetch error:")
    /\ pc' = "catch"
    /\ UNCHANGED <<req, headers, params, calls, html, result, res, sent>>

\* fetch() itself rejected: logged and thrown again.
FetchReject ==
    /\ pc = "fetch"
    /\ thrown' = Error(FetchFailed)
    /\ pending' = FALSE
    /\ log' = Append(log, "Fetch error:")
    /\ pc' = "catch"
    /\ UNCHANGED <<req, headers, params, calls, response, html, result, res, sent>>

\* fetch resolved with a success status but response.text() rejected.
TextReject ==
    /\ pc = "fetch"
    /\ \E status \in Statuses :
        /\ ResponseOk(status)
        /\ response' = status
    /\ thrown' = Error(Terminated)
    /\ pending' = FALSE
    /\ log' = Append(log, "Fetch error:")
    /\ pc' = "catch"
    /\ UNCHANGED <<req, headers, params, calls, html, result, res, sent>>

----------------------------------------------------------------------------
(* handler *)

Init ==
    /\ pc = "idle"
    /\ req \in Requests
    /\ headers = {}
    /\ params = NoParams
    /\ calls = <<>>
    /\ pending = FALSE
    /\ response = NoUpstream
    /\ html = <<>>
    /\ result = NoResult
    /\ thrown = NoError
    /\ res = NoResponse
    /\ sent = 0
    /\ log = <<>>

\* The platform invokes handler(req, res); every invocation starts from a
\* fresh response object and shares nothing with another one.
Invoke ==
    /\ pc = "idle"
    /\ pc' = "cors"
    /\ UNCHANGED <<req, headers, params, calls, pending, response, html, result, thrown, res, sent, log>>

\* The three res.setHeader calls.
SetCorsHeaders ==
    /\ pc = "cors"
    /\ headers' = headers \cup CorsHeaders
    /\ pc' = "method"
    /\ UNCHANGED <<req, params, calls, pending, response, html, result, thrown, res, sent, log>>

\* res.status(s).json(body) / .end(): the response leaves.
Send(r) ==
    /\ res' = r
    /\ sent' = sent + 1
    /\ pc' = "done"

\* Variant: the method is compared with the lower-case name.
IsPreflight_LowerCase(method) == method = "options"

\* req.method === 'OPTIONS'
IsPreflight(method) == method = "OPTIONS"

\* if (req.method === 'OPTIONS') return res.status(200).end();
Preflight ==
    /\ pc = "method"
    /\ IsPreflight(req.method)
    /\ Send(End(200))
    /\ UNCHANGED <<req, headers, params, calls, pending, response, html, result, thrown, log>>

\* const { action, query, page, id } = req.query;
ReadParams ==
    /\ pc = "method"
    /\ ~IsPreflight(req.method)
    /\ params' = [read |-> TRUE, action |-> req.query.action, query |-> req.query.query,
                  page |-> req.query.page, id |-> req.query.id]
    /\ pc' = "switch"
    /\ UNCHANGED <<req, headers, calls, pending, response, html, result, thrown, res, sent, log>>

\* parseInt(page) || 1
PageArg(page) == OrDefault(ParseInt(JsString(page)), 1)

\* Variant: only the empty string counts as missing.
Missing_EmptyOnly(v) == IF v.def THEN v.s = <<>> ELSE FALSE

\* !query and !id
Missing(v) == Falsy(v)

BadRequest(message) == Json(400, [success |-> FALSE, error |-> message])

CaseHome ==
    /\ pc = "switch"
    /\ params.action = Str("home")
    /\ IssueFetch(HomePath)
    /\ UNCHANGED <<req, headers, params, response, html, result, thrown, res, sent, log>>

CaseSearchNoQuery ==
    /\ pc = "switch"
    /\ params.action = Str("search")
    /\ Missing(params.query)
    /\ Send(BadRequest(<<"Query parameter required">>))
    /\ UNCHANGED <<req, headers, params, calls, pending, response, html, result, thrown, log>>

CaseSearch ==
    /\ pc = "switch"
    /\ params.action = Str("search")
    /\ ~Missing(params.query)
    /\ IssueFetch(SearchPath(params.query, PageArg(params.page)))
    /\ UNCHANGED <<req, headers, params, response, html, result, thrown, res, sent, log>>

CaseDetailsNoId ==
    /\ pc = "switch"
    /\ params.action = Str("details")
    /\ Missing(params.id)
    /\ Send(BadRequest(<<"ID parameter required">>))
    /\ UNCHANGED <<req, headers, params, calls, pending, response, html, result, thrown, log>>

CaseDetails ==
    /\ pc = "switch"
    /\ params.action = Str("details")
    /\ ~Missing(params.id)
    /\ IssueFetch(DetailsPath(params.id))
    /\ UNCHANGED <<req, headers, params, response, html, result, thrown, res, sent, log>>

\* Variant: an unknown action is answered with 404.
DefaultResponse_NotFound == Json(404, Catalog)

\* The default case's res.status(200).json({ success, message, endpoints })
DefaultResponse == Json(200, Catalog)

CaseDefault ==
    /\ pc = "switch"
    /\ params.action \notin {Str("home"), Str("search"), Str("details")}
    /\ Send(DefaultResponse)
    /\ UNCHANGED <<req, headers, params, calls, pending, response, html, result, thrown, log>>

\* The rest of the extractor, from cheerio.load(html) to its return.
Extract ==
    /\ pc = "loaded"
    /\ result' =
        IF params.action = Str("home") THEN HomeResult(html)
        ELSE IF params.action = Str("search")
             THEN SearchResult(html, params.query, PageArg(params.page))
             ELSE DetailsResult(html, params.id)
    /\ pc' = "extracted"
    /\ UNCHANGED <<req, headers, params, calls, pending, response, html, thrown, res, sent, log>>

\* return res.status(200).json(homeData | searchData | detailsData);
RespondData ==
    /\ pc = "extracted"
    /\ Send(Json(200, result))
    /\ UNCHANGED <<req, headers, params, calls, pending, response, html, result, thrown, log>>

\* Variant: the message of the error is dropped.
ErrorText_Generic(error) == <<"Internal server error">>

\* error.message || 'Internal server error'
ErrorText(error) ==
    IF IsEmptyMessage(error.message) THEN <<"Internal server error">> ELSE error.message

CatchResponse(error) == Json(500, [success |-> FALSE, error |-> ErrorText(error)])

\* catch (error) { console.error(...); return res.status(500).json(...) }
Catch ==
    /\ pc = "catch"
    /\ log' = Append(log, "API Error:")
    /\ Send(CatchResponse(thrown))
    /\ UNCHANGED <<req, headers, params, calls, pending, response, html, result, thrown>>

Next ==
    \/ Invoke
    \/ SetCorsHeaders
    \/ Preflight
    \/ ReadParams
    \/ CaseHome
    \/ CaseSearchNoQuery
    \/ CaseSearch
    \/ CaseDetailsNoId
    \/ CaseDetails
    \/ CaseDefault
    \/ FetchOk
    \/ FetchHttpError
    \/ FetchReject
    \/ TextReject
    \/ Extract
    \/ RespondData
    \/ Catch

Spec == Init /\ [][Next]_vars

TypeOK ==
    /\ pc \in {"idle", "cors", "method", "switch", "fetch", "loaded", "extracted", "catch", "done"}
    /\ req \in Requests
    /\ sent \in 0..1

----------------------------------------------------------------------------
(* Properties *)

GetLike == req.method # "OPTIONS"
Action == req.query.action
Extractors == {Str("home"), Str("search"), Str("details")}

\* The extractor of this request was called.
ExtractorCalled ==
    /\ params.read
    /\ \/ params.action = Str("home")
       \/ params.action = Str("search") /\ ~Falsy(params.query)
       \/ params.action = Str("details") /\ ~Falsy(params.id)

\* The indices of the nodes of the document of the given class, and the
\* k-th of them in document order.
NodesOf(cls, inTrending) ==
    { j \in DOMAIN html :
        html[j].kind.cls = cls /\ (inTrending => html[j].kind.trending) }
Kth(idx, k) == CHOOSE j \in idx : Cardinality({ m \in idx : m < j }) = k - 1

\* C1: a search without query, or details without id, on a request that is
\* not OPTIONS, is answered with 400 and the matching message, and no
\* outbound call is issued at any point of the request.
C1_MissingParameter ==
    /\ (GetLike /\ Action = Str("search") /\ req.query.query = Undefined) =>
          /\ calls = <<>> /\ ~pending
          /\ pc = "done" =>
                res = [status |-> 400, kind |-> "json",
                       json |-> [success |-> FALSE,
                                 error |-> <<"Query parameter required">>]]
    /\ (GetLike /\ Action = Str("details") /\ req.query.id = Undefined) =>
          /\ calls = <<>> /\ ~pending
          /\ pc = "done" =>
                res = [status |-> 400, kind |-> "json",
                       json |-> [success |-> FALSE,
                                 error |-> <<"ID parameter required">>]]

C1_Witness ==
    /\ pc = "done" /\ GetLike /\ res.status = 400
    /\ Action = Str("search") /\ req.query.query = Undefined
    /\ req.query.page # Undefined /\ req.query.id # Undefined

\* C2: when the upstream answers one of the three extractors with a status
\* outside 200..299, the response is 500 with success false and a non-empty
\* error that is the message of the transport error, after a single call.
C2_UpstreamFailure ==
    (pc = "done" /\ Len(calls) >= 1 /\ response # NoUpstream
        /\ (response.code < 200 \/ response.code > 299)) =>
        /\ res.status = 500 /\ res.kind = "json"
        /\ res.json.success = FALSE
        /\ \E i \in DOMAIN res.json.error : res.json.error[i] # ""
        /\ res.json.error = <<"HTTP ", ToString(response.code), ": ", response.text>>
        /\ Len(calls) = 1

C2_Witness ==
    /\ pc = "done" /\ Action = Str("details") /\ response.code = 503
    /\ res.status = 500 /\ calls = << <<"/","o","p","-","1">> >>

\* C3: an OPTIONS request ends with status 200 and an empty body, the three
\* CORS headers being set when the response leaves; no parameter is read,
\* no extractor runs and no outbound call is issued.
C3_Preflight ==
    req.method = "OPTIONS" =>
        /\ params = NoParams /\ calls = <<>> /\ ~pending
        /\ result = NoResult /\ thrown = NoError
        /\ sent > 0 =>
              /\ CorsHeaders \subseteq headers
              /\ res = [status |-> 200, kind |-> "empty"]
        /\ pc = "done" => sent = 1

C3_Witness ==
    /\ pc = "done" /\ req.method = "OPTIONS" /\ sent = 1
    /\ Action = Str("search") /\ req.query.query = Undefined

\* C4: a request that is not OPTIONS and whose action is absent or unknown is
\* answered with 200 and the one static catalog, and issues no outbound call.
C4_Catalog ==
    (GetLike /\ Action \notin Extractors) =>
        /\ calls = <<>> /\ ~pending
        /\ pc = "done" =>
              res = [status |-> 200, kind |-> "json", json |-> Catalog]

C4_Witness ==
    /\ pc = "done" /\ GetLike /\ Action = Str("bogus") /\ res.status = 200
    /\ req.query.query # Undefined /\ req.query.page # Undefined
    /\ req.query.id # Undefined

\* A text with no decimal digit in it.
NoDigit(t) == \A i \in DOMAIN t : DigitVal(t[i], 10) < 0

\* C5: the page of a search, in the upstream path and in data.currentPage,
\* is a positive integer, and it is 1 when the page parameter is absent or
\* holds no number.
C5_PagePositive ==
    (ExtractorCalled /\ params.action = Str("search") /\ Len(calls) >= 1) =>
        \E p \in 1..100 :
            /\ calls[1] = SearchPath(params.query, p)
            /\ (pc = "done" /\ res.status = 200) => res.json.data.currentPage = p
            /\ (req.query.page = Undefined \/ NoDigit(JsString(req.query.page))) => p = 1

\* C6: an invocation sends exactly one response with status 200, 400 or 500;
\* an error that was raised is held by the router's catch only and becomes
\* status 500 with success false and the message of the error.
C6_OneResponse ==
    /\ sent <= 1
    /\ pc = "done" <=> sent = 1
    /\ sent = 1 => res.status \in {200, 400, 500}
    /\ thrown.raised => pc \in {"catch", "done"}
    /\ (thrown.raised /\ pc = "done") =>
          res = [status |-> 500, kind |-> "json",
                 json |-> [success |-> FALSE, error |-> thrown.message]]
    /\ (~thrown.raised /\ pc = "done") => res.status \in {200, 400}

C6_Witness ==
    /\ pc = "done" /\ sent = 1 /\ thrown = Error(Terminated)
    /\ res.status = 500 /\ log = <<"Fetch error:", "API Error:">>

\* C7: the sub and dub counts of every search entry and of the details
\* result are non-negative, and a count is 0 when its badge is missing or
\* its text holds no number.
C7_CountsNonNegative ==
    (pc = "done" /\ res.status = 200 /\ ExtractorCalled) =>
        /\ params.action = Str("search") =>
              LET ls == NodesOf("flw-item", FALSE)
              IN \A k \in DOMAIN res.json.data.results :
                  /\ res.json.data.results[k].episodes.sub >= 0
                  /\ res.json.data.results[k].episodes.dub >= 0
                  /\ NoDigit(Text(html[Kth(ls, k)].c.sub)) =>
                        res.json.data.results[k].episodes.sub = 0
                  /\ NoDigit(Text(html[Kth(ls, k)].c.dub)) =>
                        res.json.data.results[k].episodes.dub = 0
        /\ params.action = Str("details") =>
              /\ res.json.data.episodes.sub >= 0
              /\ res.json.data.episodes.dub >= 0
              /\ (\A j \in DOMAIN html : NoDigit(Text(html[j].c.sub))) =>
                    res.json.data.episodes.sub = 0
              /\ (\A j \in DOMAIN html : NoDigit(Text(html[j].c.dub))) =>
                    res.json.data.episodes.dub = 0

\* C8: results, trending and spotlight have one entry per matched node, in
\* the document order of the nodes, and the k-th spotlight entry has rank k.
C8_OrderAndCount ==
    (pc \in {"extracted", "done"} /\ result.success) =>
        /\ params.action = Str("home") =>
              LET sp == NodesOf("deslide-item", FALSE)
                  tr == NodesOf("flw-item", TRUE)
              IN /\ Len(result.data.spotlight) = Cardinality(sp)
                 /\ Len(result.data.trending) = Cardinality(tr)
                 /\ \A k \in DOMAIN result.data.spotlight :
                      /\ result.data.spotlight[k].rank = k
                      /\ result.data.spotlight[k].id = IdOfHref(html[Kth(sp, k)].c.href)
                      /\ result.data.spotlight[k].title = Trim(Text(html[Kth(sp, k)].c.name))
                 /\ \A k \in DOMAIN result.data.trending :
                      /\ result.data.trending[k].id = IdOfHref(html[Kth(tr, k)].c.href)
                      /\ result.data.trending[k].title = Trim(Text(html[Kth(tr, k)].c.name))
        /\ params.action = Str("search") =>
              LET ls == NodesOf("flw-item", FALSE)
              IN /\ Len(result.data.results) = Cardinality(ls)
                 /\ \A k \in DOMAIN result.data.results :
                      /\ result.data.results[k].id = IdOfHref(html[Kth(ls, k)].c.href)
                      /\ result.data.results[k].title = Trim(Text(html[Kth(ls, k)].c.name))

C8_Witness ==
    /\ pc = "done" /\ res.status = 200 /\ params.read /\ params.action = Str("home")
    /\ Len(html) = 2 /\ Len(res.json.data.spotlight) = 2
    /\ res.json.data.spotlight[1].id # res.json.data.spotlight[2].id
    /\ res.json.data.spotlight[2].rank = 2

\* C9: data.id of a successful details response is the id parameter of the
\* request, whatever the page holds.
C9_DetailsId ==
    (pc = "done" /\ GetLike /\ Action = Str("details") /\ res.status = 200) =>
        res.json.data.id = req.query.id

C9_Witness ==
    /\ pc = "done" /\ GetLike /\ Action = Str("details") /\ res.status = 200
    /\ html # <<>> /\ html[1].c.href.def
    /\ Str(IdOfHref(html[1].c.href)) # req.query.id

\* C10: a request issues at most one outbound call; an extractor that was
\* called has issued exactly one, before the markup is parsed; the call is
\* over when the response leaves, and a failed call is not issued again.
C10_OneCall ==
    /\ Len(calls) <= 1
    /\ ExtractorCalled /\ pc # "switch" => Len(calls) = 1
    /\ Len(calls) = 1 => ExtractorCalled
    /\ pending => pc = "fetch" /\ sent = 0 /\ result = NoResult /\ html = <<>>
    /\ pc = "fetch" => pending
    /\ pc \in {"loaded", "extracted"} => Len(calls) = 1 /\ ~pending
    /\ result # NoResult => Len(calls) = 1 /\ ~pending
    /\ thrown.raised => Len(calls) = 1 /\ ~pending
    /\ sent = 1 => ~pending

C10_Witness ==
    /\ pc = "done" /\ thrown.raised /\ response.code = 404
    /\ Len(calls) = 1 /\ Action = Str("home")

====
